---- MODULE Spec2Model ----
(***************************************************************************)
(* A model of sbootil: the host side of the bootstub serial protocol      *)
(* (handshake, memory dump, upload-and-boot with console passthrough) and  *)
(* of the Download Mode USB session, as written in src/main.rs and         *)
(* src/device.rs.  One action per I/O step of main(); a panic (unwrap,     *)
(* assert_eq!, slice index, arithmetic overflow) ends the run in           *)
(* pc = "panicked" with the reason in fault.                               *)
(*                                                                         *)
(* Bytes are integers 0..255, byte strings are sequences of bytes, and     *)
(* command-line texts are sequences of one-character strings.              *)
(*                                                                         *)
(* A u64 is represented by its residue modulo 2^64 taken in the window     *)
(* around zero: n >= 0 stands for n, and n < 0 stands for 2^64 + n (the    *)
(* values a wrapping subtraction produces just below 2^64).  2^64 is a     *)
(* multiple of 256, so n % 256 is the same in both readings.               *)
(***************************************************************************)
EXTENDS Integers, Sequences, FiniteSets, TLC

\* ------------------------------------------------------------------ bounds

\* Largest address a dump request names.
MaxAddr == 3
\* Payload-loop iterations explored once the remaining counter has wrapped.
MaxWrapSteps == 3
\* Console bytes explored in the passthrough loop.
MaxConsole == 2
\* Longest buffer and largest packet size write_packet is called with.
MaxPayload == 3
MaxPacket == 3
\* Longest byte sequence packed and fed through the bit unpacker.
MaxUnpackLen == 3
\* Longest sequence of arbitrary raw bytes fed through the bit unpacker.
MaxRawLen == 8

\* ------------------------------------------------------- program constants

\* binary_size % 256: the echo period of the upload loop.
EchoPeriod == 256
\* The size of a Download Mode packet (write_packet's size argument).
PacketSize == 1024

WHOISDIS == <<87, 72, 79, 73, 83, 68, 73, 83>>
BOOTSTUB == <<66, 79, 79, 84, 83, 84, 85, 66>>
UPLDMEM  == <<85, 80, 76, 68, 77, 69, 77>>
STRTUPLD == <<83, 84, 82, 84, 85, 80, 76, 68>>
ENDUPLD  == <<69, 78, 68, 85, 80, 76, 68>>
BOOTFILE == <<66, 79, 79, 84, 70, 73, 76, 69>>
ODIN     == <<79, 68, 73, 78>>
LOKE     == <<76, 79, 75, 69>>
OpenSessionCmd  == <<100, 0, 0, 0, 0, 0, 0, 0>>
CloseSessionCmd == <<103, 0, 0, 0, 1, 0, 0, 0>>

\* ------------------------------------------------------------ pure helpers

Zeros(n) == [i \in 1..n |-> 0]

\* A buffer of `size` zero bytes whose first Len(data) bytes a read filled in.
Filled(data, size) == data \o Zeros(size - Len(data))

Bit(a, i) == (a \div (2 ^ i)) % 2

\* The XOR of two u8 values.
Xor8(a, b) ==
    LET x(i) == ((Bit(a, i) + Bit(b, i)) % 2) * (2 ^ i)
    IN  x(0) + x(1) + x(2) + x(3) + x(4) + x(5) + x(6) + x(7)

\* u64 comparison a < b on the window representation.
U64Lt(a, b) == IF (a >= 0) = (b >= 0) THEN a < b ELSE b < 0

\* u64 a - b: the wrapped difference, and whether the subtraction overflows.
U64Sub(a, b) == a - b
U64SubOverflows(a, b) == U64Lt(a, b)

DigitChars == <<"0", "1", "2", "3", "4", "5", "6", "7", "8", "9",
                "a", "b", "c", "d", "e", "f">>
UpperChars == <<"0", "1", "2", "3", "4", "5", "6", "7", "8", "9",
                "A", "B", "C", "D", "E", "F">>

\* char::to_digit(radix): the digit's value, or -1.
ToDigit(c, radix) ==
    LET hit == {d \in 0..(radix - 1) : DigitChars[d + 1] = c \/ UpperChars[d + 1] = c}
    IN  IF hit = {} THEN -1 ELSE CHOOSE d \in hit : TRUE

RECURSIVE FoldDigits(_, _, _)
FoldDigits(s, radix, acc) ==
    IF s = <<>> THEN acc
    ELSE FoldDigits(Tail(s), radix, acc * radix + ToDigit(s[1], radix))

\* u64::from_str_radix: Err on an empty text, a lone sign or a non-digit; a
\* leading "+" is accepted.  (The texts of this model are far from 2^64, so
\* the overflow error never arises.)
from_str_radix(string, radix) ==
    LET digits == IF string # <<>> /\ string[1] = "+" THEN Tail(string) ELSE string
    IN  IF digits = <<>> \/ \E i \in 1..Len(digits) : ToDigit(digits[i], radix) = -1
        THEN [ok |-> FALSE, v |-> 0]
        ELSE [ok |-> TRUE, v |-> FoldDigits(digits, radix, 0)]

starts_with(string, prefix) ==
    Len(string) >= Len(prefix) /\ SubSeq(string, 1, Len(prefix)) = prefix

parse_u64(string) ==
    IF starts_with(string, <<"0", "x">>) \/ starts_with(string, <<"0", "X">>)
    THEN from_str_radix(SubSeq(string, 3, Len(string)), 16)
    ELSE from_str_radix(string, 10)

RECURSIVE Digits(_, _)
Digits(n, radix) ==
    IF n < radix THEN <<DigitChars[n + 1]>>
    ELSE Digits(n \div radix, radix) \o <<DigitChars[(n % radix) + 1]>>

\* format!("{:#x}", n)
FormatHex(n) == <<"0", "x">> \o Digits(n, 16)

\* str::as_bytes on the ASCII texts of this model.
CharCode(c) ==
    CASE c = "x" -> 120 [] c = "X" -> 88 [] c = "+" -> 43 [] c = "z" -> 122
      [] OTHER -> LET d == ToDigit(c, 16)
                  IN  IF d < 10 THEN 48 + d
                      ELSE IF c = DigitChars[d + 1] THEN 87 + d ELSE 55 + d

as_bytes(string) == [i \in 1..Len(string) |-> CharCode(string[i])]

\* ------------------------------------------------------------------- state

VARIABLES
    cmd,                \* the subcommand: "dump", "boot" (bootstub) or "download"
    pc,                 \* main()'s position; "done" = returned, "panicked" = aborted
    fault,              \* why the run panicked ("none" while it has not)
    tx,                 \* every message written to the transport, in order
    buf,                \* the buffer of the latest multi-byte read
    start_address_str,  \* dump: the <start> argument as typed
    end_address_str,    \* dump: the <end> argument as typed
    start_address,
    end_address,
    remaining,          \* dump: the payload countdown (u64)
    checksum,           \* dump: the XOR accumulator (u8)
    output,             \* dump: the bytes written to the output file
    warned,             \* dump: "Checksum does not match" was printed
    received,           \* history: the bytes the device delivered to payload-loop reads
    loopReads,          \* history: the number of payload-loop reads
    shortRead,          \* history: a fixed-size serial read returned fewer bytes than asked
    binary,             \* boot: the file's bytes
    pos,                \* boot: the file cursor
    binary_size,        \* boot: the upload countdown (u64)
    value,              \* the one-byte buffer of the byte loops
    returned_value,     \* boot: the one-byte echo buffer
    nSent,              \* history: the number of bytes the upload loop wrote
    echoAt,             \* history: the values of nSent at which an echo read was made
    console,            \* boot: the characters printed by the console loop
    claimed,            \* download: claim_interface succeeded
    released,           \* download: release_interface succeeded
    alt_set,            \* download: set_alternate_setting succeeded
    hello_response,     \* download: the 4-byte hello buffer
    hello,              \* history: the bytes the handshake read delivered
    echoMismatch,       \* history: an echo read delivered a byte other than the one sent
    acks,               \* history: the number of acknowledgment reads that returned
    call_buf,           \* write_packet on its own: the buf argument
    call_size,          \* write_packet on its own: the size argument
    window,             \* BitUnpacker: the bit window register
    count,              \* BitUnpacker: the number of valid bits in the window
    packing,            \* unpacker harness: how the raw bytes were packed
    orig,               \* unpacker harness: the byte sequence that was packed
    raw,                \* unpacker harness: the raw bytes not yet fed
    fed,                \* unpacker harness: the raw bytes fed so far, in order
    decoded             \* unpacker harness: the bytes feed has returned, in order

inputs   == <<cmd, start_address_str, end_address_str, binary, call_buf, call_size>>
dumpVars == <<start_address, end_address, remaining, checksum, output, warned,
              received, loopReads>>
bootVars == <<pos, binary_size, returned_value, nSent, echoAt, console>>
usbVars  == <<claimed, released, alt_set, hello_response>>
unpackVars == <<window, count, packing, orig, raw, fed, decoded>>
progVars == <<cmd, pc, fault, tx, buf, start_address_str, end_address_str,
              start_address, end_address, remaining, checksum, output, warned,
              received, loopReads, shortRead, binary, pos, binary_size, value,
              returned_value, nSent, echoAt, console, claimed, released, alt_set,
              hello_response, hello, echoMismatch, acks, call_buf, call_size>>
vars     == <<cmd, pc, fault, tx, buf, start_address_str, end_address_str,
              start_address, end_address, remaining, checksum, output, warned,
              received, loopReads, shortRead, binary, pos, binary_size, value,
              returned_value, nSent, echoAt, console, claimed, released, alt_set,
              hello_response, hello, echoMismatch, acks, call_buf, call_size,
              window, count, packing, orig, raw, fed, decoded>>

\* ------------------------------------------------------------------ inputs

\* The address texts an operator may type: decimal, 0x-hexadecimal, an
\* upper-case prefix, and two texts parse_u64 rejects.
ArgTexts ==
    {Digits(n, 10) : n \in 0..MaxAddr} \cup {FormatHex(n) : n \in 0..MaxAddr}
    \cup {<<"0", "X", "1">>, <<"0", "x">>, <<"z">>}

\* The byte values the device sends in payloads, echoes and console output
\* (closed under XOR, so that a payload's checksum is among them).
DevBytes == {0, 90, 165, 255}

\* What one read into a one-byte buffer can deliver: nothing, or one byte.
OneByteReads == {<<>>} \cup {<<b>> : b \in DevBytes}

\* What a read expecting the marker m can deliver: m, a shorter prefix of it
\* (down to nothing), or Len(m) other bytes.
MarkerReads(m) ==
    {SubSeq(m, 1, n) : n \in 0..Len(m)} \cup {[m EXCEPT ![Len(m)] = 88]}

\* What the 16 KiB handshake read can deliver: BOOTSTUB alone, after boot-log
\* noise, cut short (down to nothing), with a wrong byte, or followed by noise.
HelloReads ==
    {SubSeq(BOOTSTUB, i, 8) : i \in 1..9}
    \cup {<<13, 10>> \o BOOTSTUB, BOOTSTUB \o <<10>>, [BOOTSTUB EXCEPT ![8] = 88],
          LOKE \o LOKE, <<66>> \o BOOTSTUB}

\* The files an operator may upload: byte i of pattern p is (p + 7 * i) % 256.
FileSizes == {0, 1, 2, 255, 256, 257, 512, 513}
Files == {[i \in 1..n |-> (p + 7 * i) % 256] : n \in FileSizes, p \in {0, 249}}

\* The buffers write_packet may be called with.
PacketArgs ==
    UNION {[1..n -> {0, 100, 255}] : n \in 0..MaxPayload}

\* The state main() starts in under subcommand c.
ProgramStart(c) ==
    /\ cmd = c
    /\ pc = "start"
    /\ fault = "none"
    /\ tx = <<>>
    /\ buf = <<>>
    /\ start_address_str \in (IF cmd = "dump" THEN ArgTexts ELSE {<<>>})
    /\ end_address_str \in (IF cmd = "dump" THEN ArgTexts ELSE {<<>>})
    /\ start_address = 0
    /\ end_address = 0
    /\ remaining = 0
    /\ checksum = 0
    /\ output = <<>>
    /\ warned = FALSE
    /\ received = <<>>
    /\ loopReads = 0
    /\ shortRead = FALSE
    /\ binary \in (IF cmd = "boot" THEN Files ELSE {<<>>})
    /\ pos = 0
    /\ binary_size = 0
    /\ value = 0
    /\ returned_value = 0
    /\ nSent = 0
    /\ echoAt = {}
    /\ console = <<>>
    /\ claimed = FALSE
    /\ released = FALSE
    /\ alt_set = FALSE
    /\ hello_response = Zeros(4)
    /\ hello = <<>>
    /\ echoMismatch = FALSE
    /\ acks = 0
    /\ call_buf \in (IF cmd = "write_packet" THEN PacketArgs ELSE {<<>>})
    /\ call_size \in (IF cmd = "write_packet" THEN 0..MaxPacket ELSE {0})

\* The unpacker with an empty window and nothing to decode.
UnpackerIdle ==
    /\ window = 0
    /\ count = 0
    /\ packing = "none"
    /\ orig = <<>>
    /\ raw = <<>>
    /\ fed = <<>>
    /\ decoded = <<>>

Init ==
    /\ \E c \in {"dump", "boot", "download"} : ProgramStart(c)
    /\ UnpackerIdle

\* ------------------------------------------------------------- panics, I/O

\* A panic: unwrap() on an Err, a failed assert_eq!, a slice index out of
\* range or (debug build) an arithmetic overflow.  Nothing after it runs.
Panic(reason) ==
    /\ pc' = "panicked"
    /\ fault' = reason

\* device.write(message).unwrap() on the serial line, then go to `next`.
SerialWrite(message, next) ==
    \/ /\ tx' = Append(tx, message)
       /\ pc' = next
       /\ fault' = fault
    \/ /\ Panic("TransportError")
       /\ tx' = tx

\* ------------------------------------------------------ bootstub handshake

\* handshake_response: buf[handshake_end_offset - 8..handshake_end_offset].
handshake_response(data) == SubSeq(data, Len(data) - 7, Len(data))

\* Mutant: the first 8 bytes read are compared instead of the last 8.
HandshakeAccepted_Head(data) == SubSeq(data, 1, 8) = BOOTSTUB

HandshakeAccepted(data) == handshake_response(data) = BOOTSTUB

WriteWhoisdis ==
    /\ cmd \in {"dump", "boot"}
    /\ pc = "start"
    /\ SerialWrite(WHOISDIS, "hello_read")
    /\ UNCHANGED <<inputs, unpackVars, hello, echoMismatch, acks, buf, dumpVars, shortRead, bootVars, value, usbVars>>

\* device.read(&mut buf) into 16 KiB, the slice of the last 8 bytes read and
\* the assert_eq! on it.  With fewer than 8 bytes read, the subtraction
\* handshake_end_offset - 8 overflows: a debug build panics there, a release
\* build wraps and panics on the slice index.
ReadHandshake ==
    /\ pc = "hello_read"
    /\ \/ /\ Panic("TransportError")
          /\ UNCHANGED <<buf, hello>>
       \/ \E data \in HelloReads :
            /\ buf' = data
            /\ hello' = data
            /\ Len(data) < 8
            /\ \/ Panic("Overflow")
               \/ Panic("SliceIndex")
       \/ \E data \in HelloReads :
            /\ buf' = data
            /\ hello' = data
            /\ Len(data) >= 8
            /\ IF HandshakeAccepted(data)
               THEN /\ pc' = IF cmd = "dump" THEN "dump_args" ELSE "boot_open"
                    /\ fault' = fault
               ELSE Panic("ProtocolMismatch")
    /\ UNCHANGED <<inputs, unpackVars, echoMismatch, acks, tx, dumpVars, shortRead, bootVars, value, usbVars>>

\* ----------------------------------------------------------- bootstub dump

\* parse_u64(start).unwrap(), parse_u64(end).unwrap(), and the output file
\* opened with truncate.
DumpParseArgs ==
    /\ pc = "dump_args"
    /\ LET s == parse_u64(start_address_str)
           e == parse_u64(end_address_str)
       IN  IF s.ok /\ e.ok
           THEN /\ start_address' = s.v
                /\ end_address' = e.v
                /\ output' = <<>>
                /\ pc' = "dump_upldmem"
                /\ fault' = fault
           ELSE /\ Panic("ParseError")
                /\ UNCHANGED <<start_address, end_address, output>>
    /\ UNCHANGED <<inputs, unpackVars, hello, echoMismatch, acks, tx, buf, remaining, checksum, warned, received,
                   loopReads, shortRead, bootVars, value, usbVars>>

WriteUpldmem ==
    /\ pc = "dump_upldmem"
    /\ SerialWrite(UPLDMEM, "dump_start")
    /\ UNCHANGED <<inputs, unpackVars, hello, echoMismatch, acks, buf, dumpVars, shortRead, bootVars, value, usbVars>>

WriteStartAddress ==
    /\ pc = "dump_start"
    /\ SerialWrite(as_bytes(start_address_str), "dump_end")
    /\ UNCHANGED <<inputs, unpackVars, hello, echoMismatch, acks, buf, dumpVars, shortRead, bootVars, value, usbVars>>

WriteEndAddress ==
    /\ pc = "dump_end"
    /\ SerialWrite(as_bytes(end_address_str), "dump_strt_read")
    /\ UNCHANGED <<inputs, unpackVars, hello, echoMismatch, acks, buf, dumpVars, shortRead, bootVars, value, usbVars>>

\* Mutant: only the first 3 bytes of the buffer are compared.
MarkerMatches_Head(buffer, marker) == SubSeq(buffer, 1, 3) = SubSeq(marker, 1, 3)

\* assert_eq!(buf[0..8], [..]) and assert_eq!(buf[0..7], [..])
MarkerMatches(buffer, marker) == buffer = marker

\* A read into a fresh zeroed buffer of Len(marker) bytes and the assert_eq!
\* of the whole buffer against the marker.  The number of bytes the read
\* returns is not looked at.
MarkerRead(marker, next) ==
    \/ /\ Panic("TransportError")
       /\ UNCHANGED <<buf, shortRead>>
    \/ \E data \in MarkerReads(marker) :
         /\ buf' = Filled(data, Len(marker))
         /\ shortRead' = (shortRead \/ Len(data) < Len(marker))
         /\ IF MarkerMatches(buf', marker)
            THEN /\ pc' = next
                 /\ fault' = fault
            ELSE Panic("ProtocolMismatch")

DumpReadStrtupld ==
    /\ pc = "dump_strt_read"
    /\ MarkerRead(STRTUPLD, "dump_init")
    /\ UNCHANGED <<inputs, unpackVars, hello, echoMismatch, acks, tx, dumpVars, bootVars, value, usbVars>>

\* let mut remaining = end_address - start_address; let mut checksum = 0u8.
\* With end < start a debug build panics and a release build wraps.
DumpInitLoop ==
    /\ pc = "dump_init"
    /\ \/ /\ ~U64SubOverflows(end_address, start_address)
          /\ remaining' = U64Sub(end_address, start_address)
          /\ checksum' = 0
          /\ pc' = "dump_loop"
          /\ fault' = fault
       \/ /\ U64SubOverflows(end_address, start_address)
          /\ remaining' = U64Sub(end_address, start_address)
          /\ checksum' = 0
          /\ pc' = "dump_loop"
          /\ fault' = fault
       \/ /\ U64SubOverflows(end_address, start_address)
          /\ Panic("Overflow")
          /\ UNCHANGED <<remaining, checksum>>
    /\ UNCHANGED <<inputs, unpackVars, hello, echoMismatch, acks, tx, buf, start_address, end_address, output, warned,
                   received, loopReads, shortRead, bootVars, value, usbVars>>

\* Mutant: the accumulator is assigned instead of XORed.
Accumulate_Assign(sum, byte) == byte

\* checksum ^= value[0]
Accumulate(sum, byte) == Xor8(sum, byte)

\* Mutant: the loop stops one byte early (remaining > 1).
DumpKeepsByte_OffByOne(rem) == rem # 0 /\ rem # 1

\* if remaining > 0 { output.write(&value) } else { break }
DumpKeepsByte(rem) == rem # 0

\* if checksum != 0 { println!("Checksum does not match") }
ChecksumMismatch(sum) == sum # 0

\* One iteration of the payload loop: a read into a fresh zeroed one-byte
\* buffer (the number of bytes it returns is not looked at), the XOR, and
\* either the write to the output and the decrement, or the break followed by
\* the checksum report.
DumpLoopRead ==
    /\ pc = "dump_loop"
    /\ remaining >= 0 \/ loopReads < MaxWrapSteps
    /\ \/ /\ Panic("TransportError")
          /\ UNCHANGED <<value, checksum, received, loopReads, shortRead,
                         output, remaining, warned>>
       \/ \E data \in OneByteReads :
            /\ value' = Filled(data, 1)[1]
            /\ checksum' = Accumulate(checksum, value')
            /\ received' = received \o data
            /\ loopReads' = loopReads + 1
            /\ shortRead' = (shortRead \/ data = <<>>)
            /\ fault' = fault
            /\ IF DumpKeepsByte(remaining)
               THEN /\ output' = Append(output, value')
                    /\ remaining' = U64Sub(remaining, 1)
                    /\ pc' = "dump_loop"
                    /\ warned' = warned
               ELSE /\ warned' = ChecksumMismatch(checksum')
                    /\ pc' = "dump_endu_read"
                    /\ UNCHANGED <<output, remaining>>
    /\ UNCHANGED <<inputs, unpackVars, hello, echoMismatch, acks, tx, buf, start_address, end_address, bootVars, usbVars>>

DumpReadEndupld ==
    /\ pc = "dump_endu_read"
    /\ MarkerRead(ENDUPLD, "done")
    /\ UNCHANGED <<inputs, unpackVars, hello, echoMismatch, acks, tx, dumpVars, bootVars, value, usbVars>>

\* ------------------------------------------------- bootstub upload and boot

\* The binary opened for reading, and binary_size = metadata().len().
BootOpenBinary ==
    /\ pc = "boot_open"
    /\ binary_size' = Len(binary)
    /\ pos' = 0
    /\ pc' = "boot_bootfile"
    /\ fault' = fault
    /\ UNCHANGED <<inputs, unpackVars, hello, echoMismatch, acks, tx, buf, dumpVars, shortRead, value, returned_value,
                   nSent, echoAt, console, usbVars>>

WriteBootfile ==
    /\ pc = "boot_bootfile"
    /\ SerialWrite(BOOTFILE, "boot_length")
    /\ UNCHANGED <<inputs, unpackVars, hello, echoMismatch, acks, buf, dumpVars, shortRead, bootVars, value, usbVars>>

WriteBootLength ==
    /\ pc = "boot_length"
    /\ SerialWrite(as_bytes(FormatHex(binary_size)), "boot_strt_read")
    /\ UNCHANGED <<inputs, unpackVars, hello, echoMismatch, acks, buf, dumpVars, shortRead, bootVars, value, usbVars>>

BootReadStrtupld ==
    /\ pc = "boot_strt_read"
    /\ MarkerRead(STRTUPLD, "boot_loop")
    /\ UNCHANGED <<inputs, unpackVars, hello, echoMismatch, acks, tx, dumpVars, bootVars, value, usbVars>>

\* Mutant: the echo test is made on the counter after its decrement.
EchoDue_AfterDecrement(size) == (size - 1) % EchoPeriod = 0

\* if binary_size % 256 == 0 { ... read the echo ... }
EchoDue(size) == size % EchoPeriod = 0

\* Mutant: the echoed byte is read and not compared.
EchoAccepted_Always(sent, returned) == TRUE

\* assert_eq!(value[0], returned_value[0])
EchoAccepted(sent, returned) == sent = returned

\* The head of a loop iteration: binary.read(&mut value) into a fresh zeroed
\* one-byte buffer (at the end of the file it reads nothing and the buffer
\* stays 0), then device.write(&value).
BootSendByte ==
    /\ pc = "boot_loop"
    /\ binary_size >= 0 \/ nSent < MaxWrapSteps
    /\ value' = IF pos < Len(binary) THEN binary[pos + 1] ELSE 0
    /\ pos' = IF pos < Len(binary) THEN pos + 1 ELSE pos
    /\ SerialWrite(<<value'>>, IF EchoDue(binary_size) THEN "boot_echo" ELSE "boot_dec")
    /\ nSent' = IF pc' = "panicked" THEN nSent ELSE nSent + 1
    /\ UNCHANGED <<inputs, unpackVars, hello, echoMismatch, acks, buf, dumpVars, shortRead, binary_size, returned_value,
                   echoAt, console, usbVars>>

\* What the echo read can deliver: nothing, the byte just sent, another byte.
EchoReads(sent) == {<<>>, <<sent>>, <<(sent + 1) % 256>>}

\* device.read(&mut returned_value) into a fresh zeroed one-byte buffer (the
\* number of bytes it returns is not looked at) and the assert_eq!.
BootEchoRead ==
    /\ pc = "boot_echo"
    /\ echoAt' = echoAt \cup {nSent}
    /\ \/ /\ Panic("TransportError")
          /\ UNCHANGED <<returned_value, shortRead, echoMismatch>>
       \/ \E data \in EchoReads(value) :
            /\ returned_value' = Filled(data, 1)[1]
            /\ echoMismatch' = (echoMismatch \/ (data # <<>> /\ data[1] # value))
            /\ shortRead' = (shortRead \/ data = <<>>)
            /\ IF EchoAccepted(value, returned_value')
               THEN /\ pc' = "boot_dec"
                    /\ fault' = fault
               ELSE Panic("EchoMismatch")
    /\ UNCHANGED <<inputs, unpackVars, hello, acks, tx, buf, dumpVars, pos, binary_size, value, nSent,
                   console, usbVars>>

\* binary_size -= 1; if binary_size == 0 { break }.  At binary_size = 0 (an
\* empty file) the subtraction overflows: a debug build panics and a release
\* build wraps to 2^64 - 1.
BootDecrement ==
    /\ pc = "boot_dec"
    /\ \/ /\ ~U64SubOverflows(binary_size, 1)
          /\ binary_size' = U64Sub(binary_size, 1)
          /\ pc' = IF binary_size' = 0 THEN "boot_endu_read" ELSE "boot_loop"
          /\ fault' = fault
       \/ /\ U64SubOverflows(binary_size, 1)
          /\ binary_size' = U64Sub(binary_size, 1)
          /\ pc' = IF binary_size' = 0 THEN "boot_endu_read" ELSE "boot_loop"
          /\ fault' = fault
       \/ /\ U64SubOverflows(binary_size, 1)
          /\ Panic("Overflow")
          /\ binary_size' = binary_size
    /\ UNCHANGED <<inputs, unpackVars, hello, echoMismatch, acks, tx, buf, dumpVars, shortRead, pos, value,
                   returned_value, nSent, echoAt, console, usbVars>>

BootReadEndupld ==
    /\ pc = "boot_endu_read"
    /\ MarkerRead(ENDUPLD, "console")
    /\ UNCHANGED <<inputs, unpackVars, hello, echoMismatch, acks, tx, dumpVars, bootVars, value, usbVars>>

\* The console loop: a one-byte read and print!, for ever.
ConsoleRead ==
    /\ pc = "console"
    /\ Len(console) < MaxConsole
    /\ \/ /\ Panic("TransportError")
          /\ UNCHANGED <<value, console, shortRead>>
       \/ \E data \in OneByteReads :
            /\ value' = Filled(data, 1)[1]
            /\ console' = Append(console, value')
            /\ shortRead' = (shortRead \/ data = <<>>)
            /\ UNCHANGED <<pc, fault>>
    /\ UNCHANGED <<inputs, unpackVars, hello, echoMismatch, acks, tx, buf, dumpVars, pos, binary_size, returned_value,
                   nSent, echoAt, usbVars>>

\* ------------------------------------------------------- Download Mode (USB)

\* UsbCdcDevice::write: one bulk OUT transfer, unwrapped by the caller.
UsbWrite(message, next) ==
    \/ /\ tx' = Append(tx, message)
       /\ pc' = next
       /\ fault' = fault
    \/ /\ Panic("TransportError")
       /\ tx' = tx

\* UsbCdcDevice::write_packet: a vector of `size` zeros, the slice
\* packet[0..buf.len()] overwritten with buf (a panic when buf is longer than
\* size), written as one bulk transfer.
write_packet(bytes, size, next) ==
    IF Len(bytes) > size
    THEN /\ Panic("SliceIndex")
         /\ tx' = tx
    ELSE UsbWrite(Filled(bytes, size), next)

\* write_packet called on its own with any buffer and size, its result
\* unwrapped as main does.
PacketCall ==
    /\ cmd = "write_packet"
    /\ pc = "start"
    /\ write_packet(call_buf, call_size, "done")
    /\ UNCHANGED <<inputs, unpackVars, hello, echoMismatch, acks, buf, dumpVars, shortRead, bootVars, value, usbVars>>

InitPacket ==
    /\ ProgramStart("write_packet")
    /\ UnpackerIdle

NextPacket == PacketCall

SpecPacket == InitPacket /\ [][NextPacket]_vars

\* The vendor and device ids parsed, the device opened and the CDC interface
\* found (from_handle); any of them failing panics.
UsbOpenDevice ==
    /\ cmd = "download"
    /\ pc = "start"
    /\ \/ /\ pc' = "usb_setup"
          /\ fault' = fault
       \/ Panic("ConfigurationError")
    /\ UNCHANGED <<inputs, unpackVars, hello, echoMismatch, acks, tx, buf, dumpVars, shortRead, bootVars, value, usbVars>>

\* Mutant: the result of setup_interface() is dropped, so that the run goes
\* on when the claim or the alternate setting failed.
UsbSetupInterface_Unchecked ==
    /\ pc = "usb_setup"
    /\ \/ UNCHANGED <<claimed, alt_set>>
       \/ claimed' = TRUE /\ alt_set' = alt_set
       \/ claimed' = TRUE /\ alt_set' = TRUE
    /\ pc' = "usb_odin"
    /\ fault' = fault
    /\ UNCHANGED <<inputs, unpackVars, hello, echoMismatch, acks, tx, buf, dumpVars, shortRead, bootVars, value,
                   released, hello_response>>

\* setup_interface().unwrap(): claim_interface, then set_alternate_setting.
UsbSetupInterface ==
    /\ pc = "usb_setup"
    /\ \/ /\ Panic("TransportError")
          /\ UNCHANGED <<claimed, alt_set>>
       \/ /\ claimed' = TRUE
          /\ alt_set' = alt_set
          /\ Panic("TransportError")
       \/ /\ claimed' = TRUE
          /\ alt_set' = TRUE
          /\ pc' = "usb_odin"
          /\ fault' = fault
    /\ UNCHANGED <<inputs, unpackVars, hello, echoMismatch, acks, tx, buf, dumpVars, shortRead, bootVars, value,
                   released, hello_response>>

UsbWriteOdin ==
    /\ pc = "usb_odin"
    /\ UsbWrite(ODIN, "usb_hello_read")
    /\ UNCHANGED <<inputs, unpackVars, hello, echoMismatch, acks, buf, dumpVars, shortRead, bootVars, value, usbVars>>

\* What the bulk read into the 4-byte hello buffer can deliver: LOKE, a
\* shorter prefix of it (down to nothing) or 4 other bytes.  A longer response
\* overflows the buffer and the transfer fails.
UsbHelloReads == {SubSeq(LOKE, 1, n) : n \in 0..4} \cup {<<76, 79, 75, 73>>, ODIN}

\* Mutant: the hello response is read and not compared.
HelloAccepted_Any(response) == TRUE

HelloAccepted(response) == response = LOKE

UsbReadHello ==
    /\ pc = "usb_hello_read"
    /\ \/ /\ Panic("TransportError")
          /\ UNCHANGED <<hello_response, hello>>
       \/ \E data \in UsbHelloReads :
            /\ hello_response' = Filled(data, 4)
            /\ hello' = data
            /\ IF HelloAccepted(hello_response')
               THEN /\ pc' = "usb_open"
                    /\ fault' = fault
               ELSE Panic("ProtocolMismatch")
    /\ UNCHANGED <<inputs, unpackVars, echoMismatch, acks, tx, buf, dumpVars, shortRead, bootVars, value,
                   claimed, released, alt_set>>

UsbWriteOpenSession ==
    /\ pc = "usb_open"
    /\ write_packet(OpenSessionCmd, PacketSize, "usb_open_ack")
    /\ UNCHANGED <<inputs, unpackVars, hello, echoMismatch, acks, buf, dumpVars, shortRead, bootVars, value, usbVars>>

\* device.read(&mut [0u8; 1024]).unwrap(): the acknowledgment, of any length,
\* is dropped.
UsbReadAck(next) ==
    \/ /\ pc' = next
       /\ fault' = fault
       /\ acks' = acks + 1
    \/ /\ Panic("TransportError")
       /\ acks' = acks

UsbReadOpenAck ==
    /\ pc = "usb_open_ack"
    /\ UsbReadAck("usb_close")
    /\ UNCHANGED <<inputs, unpackVars, hello, echoMismatch, tx, buf, dumpVars, shortRead, bootVars, value, usbVars>>

UsbWriteCloseSession ==
    /\ pc = "usb_close"
    /\ write_packet(CloseSessionCmd, PacketSize, "usb_close_ack")
    /\ UNCHANGED <<inputs, unpackVars, hello, echoMismatch, acks, buf, dumpVars, shortRead, bootVars, value, usbVars>>

UsbReadCloseAck ==
    /\ pc = "usb_close_ack"
    /\ UsbReadAck("usb_teardown")
    /\ UNCHANGED <<inputs, unpackVars, hello, echoMismatch, tx, buf, dumpVars, shortRead, bootVars, value, usbVars>>

\* teardown_interface().unwrap(): release_interface.
UsbTeardownInterface ==
    /\ pc = "usb_teardown"
    /\ \/ /\ released' = TRUE
          /\ pc' = "done"
          /\ fault' = fault
       \/ /\ Panic("TransportError")
          /\ released' = released
    /\ UNCHANGED <<inputs, unpackVars, hello, echoMismatch, acks, tx, buf, dumpVars, shortRead, bootVars, value,
                   claimed, alt_set, hello_response>>

\* ------------------------------------------------------------ BitUnpacker

\* The width of the window register.
WindowBits == 16

\* Mutant: the raw byte is ORed in whole, its high bit included.
FeedWindow_NoMask(w, nextRawByte) ==
    ((w * 128) + nextRawByte + (IF Bit(w, 0) = 1 /\ nextRawByte >= 128 THEN -128 ELSE 0))
        % (2 ^ WindowBits)

\* The window after a feed: shifted left by 7 bits, with the low 7 bits of the
\* raw byte in the bits freed.
FeedWindow(w, nextRawByte) == ((w * 128) + (nextRawByte % 128)) % (2 ^ WindowBits)

\* Mutant: the low 8 bits of the window are returned.
TopByte_Low(w, c) == w % 256

\* Bits [c - 8, c) of the window.
TopByte(w, c) == (w \div (2 ^ (c - 8))) % 256

\* feed(nextRawByte): the window shifted and filled, the count raised by 7 and,
\* once 8 bits are valid, the top byte of the valid window returned and the
\* count lowered by 8.
Feed ==
    /\ raw # <<>>
    /\ window' = FeedWindow(window, Head(raw))
    /\ raw' = Tail(raw)
    /\ fed' = Append(fed, Head(raw))
    /\ IF count + 7 >= 8
       THEN /\ decoded' = Append(decoded, TopByte(window', count + 7))
            /\ count' = count + 7 - 8
       ELSE /\ decoded' = decoded
            /\ count' = count + 7
    /\ UNCHANGED <<progVars, packing, orig>>

\* One byte packed on its own into two raw bytes: its high 7 bits, then its
\* low bit at the top of the second raw byte's 7 bits.
EncodePair(b) == <<b \div 2, (b % 2) * 64>>

RECURSIVE EncodePairs(_)
EncodePairs(s) == IF s = <<>> THEN <<>> ELSE EncodePair(s[1]) \o EncodePairs(Tail(s))

\* The bytes packed as one bit stream, most significant bit first, 7 bits to
\* a raw byte, the last raw byte padded with zero bits: acc holds the n bits
\* not yet emitted.
RECURSIVE EncodeStream(_, _, _)
EncodeStream(s, acc, n) ==
    IF n >= 7
    THEN <<acc \div (2 ^ (n - 7))>> \o EncodeStream(s, acc % (2 ^ (n - 7)), n - 7)
    ELSE IF s = <<>>
         THEN IF n = 0 THEN <<>> ELSE <<acc * (2 ^ (7 - n))>>
         ELSE EncodeStream(Tail(s), acc * 256 + s[1], n + 8)

Encode(s, how) == IF how = "pairs" THEN EncodePairs(s) ELSE EncodeStream(s, 0, 0)

\* The bytes packed in the unpacker's runs.
UnpackBytes == {0, 1, 170, 255}

ByteSeqs(maxLen) == UNION {[1..n -> UnpackBytes] : n \in 0..maxLen}

\* Raw bytes as a device may send them, with the high bit clear or set.
RawBytes == {42, 85, 213}

RawSeqs(maxLen) == UNION {[1..n -> RawBytes] : n \in 0..maxLen}

\* A fresh unpacker and the raw bytes it will be fed: a packed byte sequence,
\* or arbitrary raw bytes.
InitUnpack ==
    /\ ProgramStart("none")
    /\ window = 0
    /\ count = 0
    /\ packing \in {"pairs", "stream", "raw"}
    /\ IF packing = "raw"
       THEN orig = <<>> /\ raw \in RawSeqs(MaxRawLen)
       ELSE orig \in ByteSeqs(MaxUnpackLen) /\ raw = Encode(orig, packing)
    /\ fed = <<>>
    /\ decoded = <<>>

NextUnpack == Feed

SpecUnpack == InitUnpack /\ [][NextUnpack]_vars

Next ==
    \/ WriteWhoisdis
    \/ ReadHandshake
    \/ DumpParseArgs
    \/ WriteUpldmem
    \/ WriteStartAddress
    \/ WriteEndAddress
    \/ DumpReadStrtupld
    \/ DumpInitLoop
    \/ DumpLoopRead
    \/ DumpReadEndupld
    \/ BootOpenBinary
    \/ WriteBootfile
    \/ WriteBootLength
    \/ BootReadStrtupld
    \/ BootSendByte
    \/ BootEchoRead
    \/ BootDecrement
    \/ BootReadEndupld
    \/ ConsoleRead
    \/ UsbOpenDevice
    \/ UsbSetupInterface
    \/ UsbWriteOdin
    \/ UsbReadHello
    \/ UsbWriteOpenSession
    \/ UsbReadOpenAck
    \/ UsbWriteCloseSession
    \/ UsbReadCloseAck
    \/ UsbTeardownInterface

Spec == Init /\ [][Next]_vars

\* ------------------------------------------------------------------ claims

IsPrefix(s, t) == Len(s) <= Len(t) /\ s = SubSeq(t, 1, Len(s))

EndsWith(s, m) == Len(s) >= Len(m) /\ SubSeq(s, Len(s) - Len(m) + 1, Len(s)) = m

\* The XOR of all bytes of a sequence.
RECURSIVE XorAll(_)
XorAll(s) == IF s = <<>> THEN 0 ELSE Xor8(s[1], XorAll(Tail(s)))

\* The payload loop of a dump has ended (by its break).
DumpLoopEnded == cmd = "dump" /\ pc \in {"dump_endu_read", "done"}

\* The length of the requested range, for a request with end >= start.
RangeLen == end_address - start_address

\* C1: in a dump of a range with end >= start, while the payload loop runs
\* it has made at most end - start reads, each written to the output, and
\* counted remaining down by as many; when it has ended it has made exactly
\* (end - start) + 1 reads and written end - start bytes, and if every read
\* delivered its byte the output is exactly the first end - start bytes
\* received, in order: the last byte received is not in the output.
C1_DumpReadsLenPlusOne ==
    (cmd = "dump" /\ ~U64SubOverflows(end_address, start_address)) =>
        /\ pc = "dump_loop" =>
              /\ loopReads <= RangeLen
              /\ Len(output) = loopReads
              /\ remaining = RangeLen - loopReads
        /\ DumpLoopEnded =>
              /\ loopReads = RangeLen + 1
              /\ Len(output) = RangeLen
              /\ remaining = 0
              /\ Len(received) = loopReads =>
                    /\ Len(received) = RangeLen + 1
                    /\ output = SubSeq(received, 1, RangeLen)

C1_Witness ==
    /\ cmd = "dump"
    /\ pc = "done"
    /\ RangeLen = 3
    /\ received = <<90, 165, 255, 0>>
    /\ output = <<90, 165, 255>>

\* C2: the checksum warning is printed only when the payload loop ends, and
\* then exactly when the XOR of all bytes received in the loop is non-zero;
\* when every read delivered its byte, that is exactly when the trailing byte
\* differs from the XOR of the bytes written to the output.  The warning is
\* not fatal: the run goes on to the ENDUPLD read with the output as it was,
\* and after a warning only that read can fail the command.
C2_WarningIffXorNonZero ==
    cmd = "dump" =>
        /\ warned => XorAll(received) # 0
        /\ DumpLoopEnded =>
              /\ warned <=> XorAll(received) # 0
              /\ fault = "none"
              /\ Len(received) = loopReads =>
                    /\ output = SubSeq(received, 1, Len(received) - 1)
                    /\ warned <=> received[Len(received)] # XorAll(output)
        /\ (warned /\ pc = "panicked") =>
              /\ fault \in {"TransportError", "ProtocolMismatch"}
              /\ Len(output) = RangeLen

C2_Witness ==
    /\ cmd = "dump"
    /\ pc = "done"
    /\ warned
    /\ received = <<90, 165, 0>>
    /\ output = <<90, 165>>

\* The upload counter just before the decrement for the k-th byte written.
RemainingAt(k) == Len(binary) - (k - 1)

\* The number of written bytes whose echo test has been acted on.
EchoSettled == IF pc = "boot_echo" THEN nSent - 1 ELSE nSent

\* C3: in the upload of a file of at least one byte, the bytes after whose
\* write an echo read was made are exactly those written when remaining
\* (before its decrement) was a multiple of 256; the echo read for a byte is
\* made before the next byte is written.  A 512-byte file gets exactly two
\* echo reads, after its 1st and its 257th byte.
C3_EchoIffMultipleOf256 ==
    (cmd = "boot" /\ Len(binary) >= 1) =>
        /\ echoAt = {k \in 1..EchoSettled : RemainingAt(k) % 256 = 0}
        /\ pc = "boot_echo" => RemainingAt(nSent) % 256 = 0
        /\ (Len(binary) = 512 /\ pc \in {"boot_endu_read", "console"}) =>
              /\ nSent = 512
              /\ echoAt = {1, 257}

C3_Witness ==
    /\ cmd = "boot"
    /\ Len(binary) = 512
    /\ pc = "console"
    /\ echoAt = {1, 257}

\* C4: once an echo read has delivered a byte other than the byte just
\* written, the run has panicked with EchoMismatch: that byte is the last one
\* written, the ENDUPLD read was not made and nothing was printed to the
\* console.
C4_EchoMismatchFatal ==
    echoMismatch =>
        /\ pc = "panicked"
        /\ fault = "EchoMismatch"
        /\ nSent \in echoAt
        /\ \A k \in echoAt : k <= nSent
        /\ Len(tx) = 3 + nSent
        /\ tx[Len(tx)] = <<value>>
        /\ buf = STRTUPLD
        /\ console = <<>>

C4_Witness ==
    /\ echoMismatch
    /\ nSent = 257
    /\ pc = "panicked"

\* C5: when the handshake read is over and what it delivered does not end
\* in BOOTSTUB (serial) or in LOKE (USB), the run has panicked and nothing
\* but the hello itself was ever written to the transport.
C5_HandshakeFailureSendsNothing ==
    /\ (cmd \in {"dump", "boot"} /\ pc \notin {"start", "hello_read"}
            /\ ~EndsWith(hello, BOOTSTUB)) =>
          /\ pc = "panicked"
          /\ IsPrefix(tx, <<WHOISDIS>>)
    /\ (cmd = "download"
            /\ pc \notin {"start", "usb_setup", "usb_odin", "usb_hello_read"}
            /\ ~EndsWith(hello, LOKE)) =>
          /\ pc = "panicked"
          /\ IsPrefix(tx, <<ODIN>>)

C5_Witness ==
    /\ cmd = "dump"
    /\ hello = <<84, 83, 84, 85, 66>>
    /\ pc = "panicked"
    /\ tx = <<WHOISDIS>>

\* C6: no run ends (by returning or by a panic) with the USB interface
\* claimed and not released.
C6_ReleasedOnEveryExit ==
    (cmd = "download" /\ pc \in {"done", "panicked"} /\ claimed) => released

\* The three messages of a Download Mode run, in the order main() writes them.
DownloadMessages ==
    <<ODIN, OpenSessionCmd \o Zeros(1016), CloseSessionCmd \o Zeros(1016)>>

\* C7: in a Download Mode run the messages written are, at every moment, an
\* initial part of ODIN, the 0x64 packet, the 0x67 packet (reboot parameter 1
\* at offset 4), so each is written at most once and in that order; the 0x64
\* packet is written only after a hello response equal to LOKE was read, the
\* 0x67 packet only after the open-session acknowledgment read returned; a
\* step writes at most one message and never rewrites an earlier one, and
\* after a failure nothing more is written.
C7_DownloadOrder ==
    /\ [](cmd = "download" =>
            /\ IsPrefix(tx, DownloadMessages)
            /\ Len(tx) >= 2 => (hello = LOKE /\ tx[2][1] = 100 /\ Len(tx[2]) = 1024)
            /\ Len(tx) >= 3 => (acks >= 1 /\ tx[3][1] = 103 /\ tx[3][5] = 1)
            /\ acks >= 1 => Len(tx) >= 2
            /\ pc = "done" => (Len(tx) = 3 /\ acks = 2))
    /\ [][cmd = "download" =>
            /\ IsPrefix(tx, tx')
            /\ Len(tx') <= Len(tx) + 1
            /\ fault # "none" => tx' = tx]_vars

C7_Witness ==
    /\ cmd = "download"
    /\ pc = "done"
    /\ tx = DownloadMessages
    /\ hello = LOKE

\* C8 as stated: when every byte was packed on its own into two raw bytes and
\* all raw bytes have been fed, the bytes returned are the original sequence.
C8_PairRoundTrip ==
    (packing = "pairs" /\ raw = <<>>) => decoded = orig

\* C8, amended: when the bytes were packed as one bit stream, 7 bits to a raw
\* byte, and all raw bytes have been fed, the bytes returned are the original
\* sequence: same length, same bytes, same order; and a single byte packed on
\* its own into two raw bytes is returned unchanged.
C8_StreamRoundTrip ==
    /\ (packing = "stream" /\ raw = <<>>) => decoded = orig
    /\ (packing = "pairs" /\ Len(orig) <= 1 /\ raw = <<>>) => decoded = orig
    /\ packing = "stream" => IsPrefix(decoded, orig)

C8_Witness ==
    /\ packing = "stream"
    /\ raw = <<>>
    /\ orig = <<170, 1, 255>>
    /\ decoded = <<170, 1, 255>>

\* C9: for every file length, the upload loop never writes more bytes than
\* the file has, writes them in file order, and never takes the remaining
\* counter below 0; for an empty file it writes no byte and makes no echo read.
C9_UploadWritesExactlyFile ==
    cmd = "boot" =>
        /\ nSent <= Len(binary)
        /\ binary_size >= 0
        /\ \A k \in 1..nSent : k <= Len(binary) /\ tx[3 + k] = <<binary[k]>>
        /\ pc \in {"boot_endu_read", "console"} => nSent = Len(binary)
        /\ Len(binary) = 0 => (nSent = 0 /\ echoAt = {} /\ pc # "boot_echo")

\* C10: in a dump (of a range with end >= start), a read that delivered
\* fewer bytes than its buffer holds has failed the command, and only bytes
\* received from the device are in the output.
C10_ShortReadAborts ==
    (cmd = "dump" /\ ~U64SubOverflows(end_address, start_address)) =>
        /\ shortRead => pc = "panicked"
        /\ IsPrefix(output, received)

\* C11 as stated: when a file whose size is a multiple of 256 has been sent,
\* its last byte was followed by an echo read.
C11_FinalByteEchoed ==
    (cmd = "boot" /\ Len(binary) >= 1 /\ Len(binary) % 256 = 0
        /\ pc \in {"boot_endu_read", "console"}) => Len(binary) \in echoAt

\* The first byte of the file that is followed by an echo read.
FirstEcho == (Len(binary) % 256) + 1

\* C11, amended: in the upload of a file of at least one byte the echo reads
\* come exactly once every 256 bytes, counted down from the original size:
\* the first after byte (size mod 256) + 1, each next one 256 bytes later and
\* none in between.  When the size is a multiple of 256 the first byte of the
\* file is followed by an echo read; the last byte of a file (written at
\* remaining = 1) never is.
C11_EchoEvery256FromOriginal ==
    (cmd = "boot" /\ Len(binary) >= 1) =>
        /\ \A k \in echoAt :
              /\ k >= FirstEcho
              /\ (k - FirstEcho) % 256 = 0
              /\ k + 256 <= EchoSettled => k + 256 \in echoAt
        /\ EchoSettled >= FirstEcho => FirstEcho \in echoAt
        /\ (Len(binary) % 256 = 0 /\ EchoSettled >= 1) => 1 \in echoAt
        /\ Len(binary) \notin echoAt

C11_Witness ==
    /\ cmd = "boot"
    /\ Len(binary) = 256
    /\ pc = "boot_endu_read"
    /\ nSent = 256
    /\ echoAt = {1}

\* C12: an upload never returns normally.  The console loop is entered (and
\* anything is printed) only when all file bytes were written, in file order,
\* no echo read delivered a wrong byte and the 7-byte read after them gave
\* ENDUPLD; it is not an error state.  A step taken in the console loop
\* writes nothing to the device and prints one character, staying in the
\* loop; the loop is left only when its read fails.
C12_ConsolePassthrough ==
    /\ [](cmd = "boot" =>
            /\ pc # "done"
            /\ pc = "console" => (fault = "none" /\ buf = ENDUPLD)
            /\ (pc = "console" \/ console # <<>>) =>
                  /\ Len(binary) >= 1
                  /\ nSent = Len(binary)
                  /\ Len(tx) = 3 + Len(binary)
                  /\ \A k \in 1..Len(binary) : tx[3 + k] = <<binary[k]>>
                  /\ binary_size = 0
                  /\ ~echoMismatch
                  /\ echoAt # {} => returned_value = binary[CHOOSE k \in echoAt : \A j \in echoAt : j <= k])
    /\ [][pc = "console" =>
            /\ tx' = tx
            /\ \/ pc' = "console" /\ Len(console') = Len(console) + 1
                    /\ console = SubSeq(console', 1, Len(console))
               \/ pc' = "panicked" /\ fault' = "TransportError" /\ console' = console]_vars

C12_Witness ==
    /\ cmd = "boot"
    /\ pc = "console"
    /\ Len(binary) = 257
    /\ console = <<90, 165>>

\* The messages a dump writes to the device, in order.
DumpMessages ==
    <<WHOISDIS, UPLDMEM, as_bytes(start_address_str), as_bytes(end_address_str)>>

\* C13: a dump writes WHOISDIS, UPLDMEM, the start text and the end text in
\* that order, each once, and nothing after them; everything after WHOISDIS
\* is written only after an accepted handshake; the reads after the handshake
\* happen only when all four messages are written; the payload loop runs (a
\* payload byte is read or a byte is written to the output) only after the
\* 8-byte read gave STRTUPLD, and otherwise the program panics; the dump
\* completes only when the 7-byte read after the checksum byte gave ENDUPLD,
\* and otherwise the program panics.
C13_DumpOrderingAndGating ==
    /\ [](cmd = "dump" =>
            /\ IsPrefix(tx, DumpMessages)
            /\ Len(tx) >= 2 => EndsWith(hello, BOOTSTUB)
            /\ pc \in {"dump_strt_read", "dump_init", "dump_loop", "dump_endu_read", "done"}
                  => tx = DumpMessages
            /\ (loopReads > 0 \/ output # <<>>) =>
                  (tx = DumpMessages /\ pc \in {"dump_loop", "dump_endu_read", "done", "panicked"})
            /\ pc \in {"dump_init", "dump_loop"} => buf = STRTUPLD
            /\ pc = "done" => (buf = ENDUPLD /\ loopReads >= 1 /\ fault = "none"))
    /\ [][cmd = "dump" =>
            /\ (loopReads' # loopReads \/ output' # output) =>
                  (pc = "dump_loop" /\ buf = STRTUPLD /\ tx' = tx)
            /\ pc = "dump_strt_read" =>
                  \/ pc' = "dump_init" /\ buf' = STRTUPLD
                  \/ pc' = "panicked" /\ fault' \in {"ProtocolMismatch", "TransportError"}
            /\ pc = "dump_endu_read" =>
                  \/ pc' = "done" /\ buf' = ENDUPLD
                  \/ pc' = "panicked" /\ fault' \in {"ProtocolMismatch", "TransportError"}]_vars

C13_Witness ==
    /\ cmd = "dump"
    /\ pc = "done"
    /\ tx = DumpMessages
    /\ Len(output) = 2
    /\ loopReads = 3
    /\ buf = ENDUPLD

\* C14: after write_packet(buf, size) was called, when buf is no longer than
\* size either one transfer of exactly size bytes was written, buf followed by
\* zeros, or the transfer failed; when buf is longer than size nothing was
\* written and the call ended with a PayloadTooLarge error, not otherwise.
C14_WritePacket ==
    (cmd = "write_packet" /\ pc # "start") =>
        IF Len(call_buf) <= call_size
        THEN \/ /\ pc = "done"
                /\ Len(tx) = 1
                /\ Len(tx[1]) = call_size
                /\ SubSeq(tx[1], 1, Len(call_buf)) = call_buf
                /\ \A i \in (Len(call_buf) + 1)..call_size : tx[1][i] = 0
             \/ /\ pc = "panicked"
                /\ fault = "TransportError"
                /\ tx = <<>>
        ELSE /\ tx = <<>>
             /\ pc = "panicked"
             /\ fault = "PayloadTooLarge"

\* C15: a dump whose parsed range has end < start never sends UPLDMEM or the
\* address texts (it writes nothing after WHOISDIS) and never enters the
\* payload loop; a dump in the payload loop has end >= start and a remaining
\* counter within 0..(end - start).
C15_RangeChecked ==
    cmd = "dump" =>
        /\ U64SubOverflows(end_address, start_address) =>
              (Len(tx) <= 1 /\ pc # "dump_loop")
        /\ pc = "dump_loop" =>
              (remaining >= 0 /\ remaining <= end_address - start_address)

\* The handshake read of a bootstub command returns in this step (hello' is
\* what it delivered).
HandshakeReadReturns == pc = "hello_read" /\ fault' # "TransportError"

\* C16: when the read after WHOISDIS returns n bytes, the command goes on
\* exactly when n >= 8 and the last 8 of them are BOOTSTUB, whatever precedes
\* them, and otherwise (n < 8 included) it ends as a ProtocolMismatch.
C16_BootstubHandshake ==
    [][HandshakeReadReturns =>
          /\ pc' # "panicked" <=> EndsWith(hello', BOOTSTUB)
          /\ pc' = "panicked" => fault' = "ProtocolMismatch"]_vars

\* The hello read of the download command returns in this step (hello' is
\* what it delivered into the 4-byte buffer).
HelloReadReturns == pc = "usb_hello_read" /\ fault' # "TransportError"

\* C17: the hello read follows the write of ODIN and nothing else; when it
\* returns, the command goes on to open the session exactly when the bytes
\* received end in LOKE, and otherwise (fewer than 4 bytes included) it ends
\* as a ProtocolMismatch; whatever is done after the handshake is done with
\* LOKE received.
C17_DownloadHandshake ==
    /\ [](cmd = "download" =>
            /\ pc = "usb_hello_read" => tx = <<ODIN>>
            /\ (Len(tx) >= 2 \/ acks > 0 \/ released
                  \/ pc \in {"usb_open", "usb_open_ack", "usb_close", "usb_close_ack",
                             "usb_teardown", "done"})
                  => (hello = LOKE /\ hello_response = LOKE)
            /\ (pc = "panicked" /\ fault = "ProtocolMismatch") =>
                  (~EndsWith(hello, LOKE) /\ tx = <<ODIN>>))
    /\ [][HelloReadReturns =>
            /\ pc' = "usb_open" <=> EndsWith(hello', LOKE)
            /\ pc' # "usb_open" => (pc' = "panicked" /\ fault' = "ProtocolMismatch")
            /\ tx' = tx]_vars

C17_Witness ==
    /\ cmd = "download"
    /\ pc = "panicked"
    /\ fault = "ProtocolMismatch"
    /\ hello = <<76, 79, 75>>
    /\ hello_response = <<76, 79, 75, 0>>

\* Bit i (from 0, first bit first) of the stream made of the low 7 bits of
\* each raw byte, most significant bit first.
PayloadBit(s, i) == Bit(s[(i \div 7) + 1] % 128, 6 - (i % 7))

\* Byte k (from 1) of that stream.
PayloadByte(s, k) ==
    LET b(j) == PayloadBit(s, 8 * (k - 1) + j)
    IN  128 * b(0) + 64 * b(1) + 32 * b(2) + 16 * b(3)
          + 8 * b(4) + 4 * b(5) + 2 * b(6) + b(7)

\* C18: from an empty window, after every feed the count is in 0..7 and is
\* the number of payload bits fed and not yet returned; before the decode
\* attempt of a feed the count is in 0..14; a feed returns at most one byte,
\* which is bits [count - 8, count) of the window shifted left by 7 with the
\* low 7 bits of the raw byte ORed in; the bytes returned are the bytes of the
\* stream of the low 7 bits of the raw bytes fed, so that no high bit of a raw
\* byte shows in any of them.
C18_BitWindow ==
    /\ [](packing # "none" =>
            /\ count \in 0..7
            /\ count = 7 * Len(fed) - 8 * Len(decoded)
            /\ \A k \in 1..Len(decoded) : decoded[k] = PayloadByte(fed, k))
    /\ [][(packing # "none" /\ fed' # fed) =>
            LET shifted == window * 128 + (Head(raw) % 128)
                pending == count + 7
            IN  /\ pending \in 0..14
                /\ Len(decoded') - Len(decoded) \in {0, 1}
                /\ Len(decoded') > Len(decoded) <=> pending >= 8
                /\ pending >= 8 =>
                      /\ decoded'[Len(decoded')] = (shifted \div (2 ^ (pending - 8))) % 256
                      /\ count' = pending - 8
                /\ pending < 8 => count' = pending
                /\ decoded = SubSeq(decoded', 1, Len(decoded))]_vars

C18_Witness ==
    /\ packing = "raw"
    /\ raw = <<>>
    /\ fed = <<213, 42, 213, 85, 42, 213, 85, 213>>
    /\ count = 0
    /\ Len(decoded) = 7

\* The positions of main() at which the download command makes a bulk
\* transfer.
TransferPcs ==
    {"usb_odin", "usb_hello_read", "usb_open", "usb_open_ack", "usb_close", "usb_close_ack"}

\* Something was written to or read from the device.
Transferred == tx # <<>> \/ hello # <<>> \/ acks > 0 \/ hello_response # Zeros(4)

\* C19: in a download run every bulk transfer is made at a position where
\* the interface is claimed, its alternate setting selected and it is not
\* released; when the claim or the selection fails the run panics with
\* nothing transferred, then or later; the interface is claimed only by
\* setup_interface, once, and released only by teardown_interface, once, after
\* which main() returns and nothing more is transferred.
C19_UsbResourceOrdering ==
    /\ [](cmd = "download" =>
            /\ pc \in TransferPcs => (claimed /\ alt_set /\ ~released)
            /\ Transferred => (claimed /\ alt_set)
            /\ alt_set => claimed
            /\ released => (claimed /\ alt_set /\ pc = "done")
            /\ pc \in {"start", "usb_setup"} => (~claimed /\ ~alt_set /\ ~Transferred))
    /\ [][cmd = "download" =>
            /\ (tx' # tx \/ hello' # hello \/ acks' # acks \/ hello_response' # hello_response) =>
                  (pc \in TransferPcs /\ claimed /\ alt_set /\ ~released /\ ~released')
            /\ (claimed' # claimed \/ alt_set' # alt_set) =>
                  (pc = "usb_setup" /\ ~claimed /\ ~alt_set /\ claimed')
            /\ (pc = "usb_setup" /\ ~alt_set') =>
                  (pc' = "panicked" /\ fault' = "TransportError" /\ ~Transferred)
            /\ released' # released =>
                  (pc = "usb_teardown" /\ ~released /\ released' /\ pc' = "done")
            /\ pc \in {"done", "panicked"} => UNCHANGED vars]_vars

C19_Witness ==
    /\ cmd = "download"
    /\ pc = "done"
    /\ claimed
    /\ alt_set
    /\ released
    /\ acks = 2
    /\ Len(tx) = 3

\* A run whose claim succeeded and whose alternate setting failed: it has
\* ended with nothing transferred.
C19_FailedSetup ==
    /\ cmd = "download"
    /\ pc = "panicked"
    /\ claimed
    /\ ~alt_set

====
